---- MODULE Spec2Model ----
(***************************************************************************)
(* Model of src/src/App.jsx: the App component's state (useState slots),   *)
(* the mount effect, onChange, onSubmit and loadReviews, with every await  *)
(* as a separate step and the backend's answers chosen nondeterministically.*)
(*                                                                         *)
(* Text typed by the user (title, review, tags, rating) is a sequence of   *)
(* one-character strings so that trim, split and Number are computed.      *)
(* Messages (error, success) and the pass-through fields watched_on and    *)
(* poster_url are opaque strings.                                          *)
(***************************************************************************)
EXTENDS Integers, Sequences, FiniteSets, TLC

VARIABLES
    form,        \* useState form (line 43)
    submitting,  \* useState submitting (line 51)
    error,       \* useState error (line 52)
    success,     \* useState success (line 53)
    items,       \* useState items (line 54)
    loading,     \* useState loading (line 55)
    mounted,     \* whether the mount effect (line 73) has run
    subs,        \* onSubmit invocations suspended at an await
    posts,       \* POST /api/reviews requests in flight
    gets,        \* GET /api/reviews requests in flight (loadReviews invocations)
    getsIssued,  \* number of GET requests issued so far
    postsOk,     \* number of POSTs answered 2xx so far
    nsubmits,    \* number of submit events so far
    completedOk  \* successful GET completions, in completion order

vars == <<form, submitting, error, success, items, loading, mounted, subs,
          posts, gets, getsIssued, postsOk, nsubmits, completedOk>>

----------------------------------------------------------------------------
(* Bounds of the model *)

\* number of submit events explored
MaxSubmits == 2
\* longest typed title / tags text explored by SpecForm
MaxStrLen == 3

----------------------------------------------------------------------------
(* Strings as sequences of characters *)

IsSpace(c) == c = " "

RECURSIVE TrimStart(_)
TrimStart(s) ==
    IF s # <<>> /\ IsSpace(Head(s)) THEN TrimStart(Tail(s)) ELSE s

RECURSIVE TrimEnd(_)
TrimEnd(s) ==
    IF s # <<>> /\ IsSpace(s[Len(s)]) THEN TrimEnd(SubSeq(s, 1, Len(s) - 1)) ELSE s

\* String.prototype.trim
Trim(s) == TrimEnd(TrimStart(s))

RECURSIVE SplitAcc(_, _, _)
SplitAcc(s, cur, acc) ==
    IF s = <<>> THEN Append(acc, cur)
    ELSE IF Head(s) = "," THEN SplitAcc(Tail(s), <<>>, Append(acc, cur))
    ELSE SplitAcc(Tail(s), Append(cur, Head(s)), acc)

\* String.prototype.split(',')
Split(s) == SplitAcc(s, <<>>, <<>>)

\* all character sequences over alphabet of length at most n
Strs(alphabet, n) == UNION {[1..k -> alphabet] : k \in 0..n}

----------------------------------------------------------------------------
(* Number(form.rating), line 92 *)

\* a JS number: a finite integer, NaN, or +/-Infinity (n is then the sign)
Num(n) == [k |-> "num", n |-> n]
NaN == [k |-> "nan", n |-> 0]
Inf(sign) == [k |-> "inf", n |-> sign]

\* the value held by the rating field: the number 7 of the initial state, or
\* the string e.target.value written by onChange
RawNumber(n) == [k |-> "number", n |-> n, s |-> <<>>]
RawString(s) == [k |-> "string", n |-> 0, s |-> s]

DigitChars == <<"0", "1", "2", "3", "4", "5", "6", "7", "8", "9">>
IsDigit(c) == \E i \in 1..Len(DigitChars) : DigitChars[i] = c
DigitVal(c) == (CHOOSE i \in 1..Len(DigitChars) : DigitChars[i] = c) - 1

RECURSIVE DecimalValue(_)
DecimalValue(s) ==
    IF s = <<>> THEN 0
    ELSE DecimalValue(SubSeq(s, 1, Len(s) - 1)) * Len(DigitChars) + DigitVal(s[Len(s)])

InfinityLiteral == <<"I", "n", "f", "i", "n", "i", "t", "y">>

\* StringToNumber of ECMAScript on texts made of blanks, a sign, decimal
\* digits and letters: blank text is 0, a signed digit string is its value,
\* a signed "Infinity" is infinite, anything else is NaN.
StringToNumber(s) ==
    LET t == Trim(s)
        signed == t # <<>> /\ Head(t) \in {"+", "-"}
        neg == signed /\ Head(t) = "-"
        body == IF signed THEN Tail(t) ELSE t
    IN  IF t = <<>> THEN Num(0)
        ELSE IF body = InfinityLiteral THEN Inf(IF neg THEN -1 ELSE 1)
        ELSE IF body # <<>> /\ \A i \in 1..Len(body) : IsDigit(body[i])
             THEN Num(IF neg THEN 0 - DecimalValue(body) ELSE DecimalValue(body))
        ELSE NaN

\* Number(x)
Number(x) == IF x.k = "number" THEN Num(x.n) ELSE StringToNumber(x.s)

\* Number.isNaN(r), r < c, r > c on JS numbers
IsNaN(r) == r.k = "nan"
Less(r, c) == (r.k = "num" /\ r.n < c) \/ (r.k = "inf" /\ r.n < 0)
Greater(r, c) == (r.k = "num" /\ r.n > c) \/ (r.k = "inf" /\ r.n > 0)

----------------------------------------------------------------------------
(* The payload of onSubmit, lines 89-101 *)

DefaultRating == 7
RatingMin == 0
RatingMax == 10

\* the initial form and the form written back after a successful POST
DefaultForm ==
    [title |-> <<>>, rating |-> RawNumber(DefaultRating), review |-> <<>>,
     watched_on |-> "", poster_url |-> "", tags |-> <<>>]

NullStr == [null |-> TRUE, v |-> ""]
NullTags == [null |-> TRUE, v |-> <<>>]

\* x || null on a string
OrNull(x) == IF x = "" THEN NullStr ELSE [null |-> FALSE, v |-> x]

\* form.tags ? form.tags.split(',').map((t) => t.trim()).filter(Boolean) : null
NormalizeTags(raw) ==
    IF raw # <<>>
    THEN LET pieces == Split(raw)
             trimmed == [i \in 1..Len(pieces) |-> Trim(pieces[i])]
         IN  [null |-> FALSE, v |-> SelectSeq(trimmed, LAMBDA t : t # <<>>)]
    ELSE NullTags

Payload(f) ==
    [title |-> Trim(f.title),
     review |-> Trim(f.review),
     rating |-> Number(f.rating),
     watched_on |-> OrNull(f.watched_on),
     poster_url |-> OrNull(f.poster_url),
     tags |-> NormalizeTags(f.tags)]

\* !payload.title || !payload.review, line 103
MissingRequired(p) == p.title = <<>> \/ p.review = <<>>

\* line 106 without its upper bound
RatingRejectedNoUpper(r) == IsNaN(r) \/ Less(r, RatingMin)

\* Number.isNaN(payload.rating) || payload.rating < 0 || payload.rating > 10, line 106
RatingRejected(r) == IsNaN(r) \/ Less(r, RatingMin) \/ Greater(r, RatingMax)

MsgRequired == "Please provide at least a title and your review."
MsgRating == "Rating must be between 0 and 10"
MsgSaveFailed == "Failed to save review"
MsgSaved == "Saved!"
\* the message of the TypeError fetch rejects with
MsgTransport == "Failed to fetch"
\* the message of the SyntaxError res.json() rejects with
MsgParse == "Unexpected token < in JSON at position 0"
\* the message of the TypeError of reading a property of null
MsgNullDetail == "Cannot read properties of null (reading 'detail')"

----------------------------------------------------------------------------
(* The backend's answers *)

\* bodies of a 2xx GET: arrays of reviews, a review standing for its id
Bodies == {<<1>>, <<2, 1>>}

\* non-2xx statuses of a GET
GetFailStatuses == {500}

\* `Failed: ${res.status}`, line 63
StatusMessage(status) == "Failed: " \o ToString(status)

\* bodies of a non-2xx POST: text that is no JSON, the JSON null, or a JSON
\* object with or without a detail member
ErrBodies ==
    {[kind |-> "unparseable", hasDetail |-> FALSE, detail |-> ""],
     [kind |-> "null", hasDetail |-> FALSE, detail |-> ""],
     [kind |-> "object", hasDetail |-> FALSE, detail |-> ""],
     [kind |-> "object", hasDetail |-> TRUE, detail |-> ""],
     [kind |-> "object", hasDetail |-> TRUE, detail |-> "Title already exists"]}

\* await res.json().catch(() => ({})), line 116
ParsedErrBody(body) ==
    IF body.kind = "unparseable"
    THEN [kind |-> "object", hasDetail |-> FALSE, detail |-> ""]
    ELSE body

\* the message of the Error that leaves lines 116-117: reading .detail of null
\* throws a TypeError, which the catch of line 123 reports like any other
ErrBodyMessage(body) ==
    LET detail == ParsedErrBody(body)
    IN  IF detail.kind = "null" THEN MsgNullDetail
        ELSE IF detail.hasDetail /\ detail.detail # "" THEN detail.detail
        ELSE MsgSaveFailed

----------------------------------------------------------------------------
(* What the user types *)

Fields == {"title", "rating", "review", "watched_on", "poster_url", "tags"}

\* values typed in the full workflow
Inputs(name) ==
    CASE name = "title" -> {<<>>, <<" ", "a", " ">>}
      [] name = "review" -> {<<>>, <<"r">>}
      [] name = "rating" -> {RawString(<<"1", "1">>)}
      [] name = "watched_on" -> {""}
      [] name = "poster_url" -> {""}
      [] name = "tags" -> {<<>>, <<"a", ",", " ">>}

\* rating texts tried by SpecForm
RatingTexts ==
    {<<>>, <<" ">>, <<"0">>, <<"7">>, <<"1", "0">>, <<"1", "1">>, <<"-", "1">>,
     <<"-", "0">>, <<" ", "5", " ">>, <<"a">>, <<"-">>, InfinityLiteral,
     <<"-">> \o InfinityLiteral}

\* forms tried by SpecForm
WideForms ==
    {[title |-> ti, rating |-> ra, review |-> re, watched_on |-> w,
      poster_url |-> pu, tags |-> ta] :
        ti \in Strs({" ", "a"}, MaxStrLen),
        ra \in {RawNumber(DefaultRating)} \cup {RawString(s) : s \in RatingTexts},
        re \in {<<>>, <<" ">>, <<" ", "r">>},
        w \in {"", "2024-05-01"},
        pu \in {"https://p"},
        ta \in Strs({",", " ", "a"}, MaxStrLen)}

----------------------------------------------------------------------------
(* The component *)

\* useState initial values, lines 43-55, before the mount effect
Init ==
    /\ form = DefaultForm
    /\ submitting = FALSE
    /\ error = ""
    /\ success = ""
    /\ items = <<>>
    /\ loading = TRUE
    /\ mounted = FALSE
    /\ subs = {}
    /\ posts = {}
    /\ gets = {}
    /\ getsIssued = 0
    /\ postsOk = 0
    /\ nsubmits = 0
    /\ completedOk = <<>>

\* caller of loadReviews that is not an onSubmit invocation: the mount effect
Effect == 0

\* loadReviews up to its first await, lines 60-62
LoadReviews(caller) ==
    /\ loading' = TRUE
    /\ gets' = gets \cup {[id |-> getsIssued + 1, stage |-> "fetch", caller |-> caller]}
    /\ getsIssued' = getsIssued + 1

\* line 65 appending to the list instead of replacing it
SetItemsMerge(prev, data) == prev \o data

\* setItems(data), line 65
SetItems(prev, data) == data

\* a catch that empties the list
ItemsClearedOnCatch(prev) == <<>>

\* what the catch of loadReviews leaves in items, lines 66-68
ItemsAfterCatch(prev) == prev

\* a finally that clears the flag only when no other GET is in flight
LoadingWhileOthers(inFlight) == inFlight # {}

\* the finally of loadReviews, line 69
LoadingAfterFinally(inFlight) == FALSE

\* onSubmit without its finally
SubmittingLeftSet == TRUE

\* the finally of onSubmit, line 126
SubmittingAfterFinally == FALSE

\* loadReviews returns: its finally, then the continuation of the onSubmit
\* that awaits it (line 122) runs to its own finally (line 126)
EndLoad(g) ==
    /\ loading' = LoadingAfterFinally(gets \ {g})
    /\ gets' = gets \ {g}
    /\ IF g.caller # Effect
       THEN /\ subs' = {s \in subs : s.id # g.caller}
            /\ submitting' = SubmittingAfterFinally
       ELSE UNCHANGED <<subs, submitting>>

\* useEffect(() => { loadReviews() }, []), lines 73-76
Mount ==
    /\ ~mounted
    /\ mounted' = TRUE
    /\ LoadReviews(Effect)
    /\ UNCHANGED <<form, submitting, error, success, items, subs, posts,
                   postsOk, nsubmits, completedOk>>

\* onChange, lines 78-81
OnChange(name, value) ==
    /\ mounted
    /\ form' = [form EXCEPT ![name] = value]
    /\ UNCHANGED <<submitting, error, success, items, loading, mounted, subs,
                   posts, gets, getsIssued, postsOk, nsubmits, completedOk>>

\* a button that is never disabled
SubmitAlwaysEnabled == TRUE

\* <button disabled={submitting}>, line 173
SubmitEnabled == ~submitting

\* the message of the Error thrown by lines 103-108, "" when none is thrown
ValidationMessage(p) ==
    IF MissingRequired(p) THEN MsgRequired
    ELSE IF RatingRejected(p.rating) THEN MsgRating
    ELSE ""

\* onSubmit when validation throws, lines 84-108 and 123-127: nothing is
\* awaited, so the flag set by line 87 is cleared by line 126 in the same run
OnSubmitInvalid ==
    /\ mounted /\ SubmitEnabled /\ nsubmits < MaxSubmits
    /\ ValidationMessage(Payload(form)) # ""
    /\ error' = ValidationMessage(Payload(form))
    /\ success' = ""
    /\ submitting' = SubmittingAfterFinally
    /\ nsubmits' = nsubmits + 1
    /\ UNCHANGED <<form, items, loading, mounted, subs, posts, gets,
                   getsIssued, postsOk, completedOk>>

\* onSubmit up to the await of the POST, lines 84-114
OnSubmitValid ==
    /\ mounted /\ SubmitEnabled /\ nsubmits < MaxSubmits
    /\ ValidationMessage(Payload(form)) = ""
    /\ error' = ""
    /\ success' = ""
    /\ submitting' = TRUE
    /\ nsubmits' = nsubmits + 1
    /\ subs' = subs \cup {[id |-> nsubmits + 1, stage |-> "post"]}
    /\ posts' = posts \cup {[sub |-> nsubmits + 1, body |-> Payload(form)]}
    /\ UNCHANGED <<form, items, loading, mounted, gets, getsIssued, postsOk,
                   completedOk>>

\* the POST's fetch rejects: catch and finally, lines 123-127
PostTransportFail(s) ==
    /\ s.stage = "post"
    /\ posts' = {q \in posts : q.sub # s.id}
    /\ subs' = subs \ {s}
    /\ error' = MsgTransport
    /\ submitting' = SubmittingAfterFinally
    /\ UNCHANGED <<form, success, items, loading, mounted, gets, getsIssued,
                   postsOk, nsubmits, completedOk>>

\* the POST is answered non-2xx: onSubmit awaits the body, lines 115-116
PostNotOk(s) ==
    /\ s.stage = "post"
    /\ posts' = {q \in posts : q.sub # s.id}
    /\ subs' = (subs \ {s}) \cup {[s EXCEPT !.stage = "errbody"]}
    /\ UNCHANGED <<form, submitting, error, success, items, loading, mounted,
                   gets, getsIssued, postsOk, nsubmits, completedOk>>

\* the non-2xx body has been read: throw, catch, finally, lines 116-127
PostErrBody(s, body) ==
    /\ s.stage = "errbody"
    /\ subs' = subs \ {s}
    /\ error' = ErrBodyMessage(body)
    /\ submitting' = SubmittingAfterFinally
    /\ UNCHANGED <<form, success, items, loading, mounted, posts, gets,
                   getsIssued, postsOk, nsubmits, completedOk>>

\* lines 120-122 without the setForm of line 121
PostOkKeepsForm(s) ==
    /\ s.stage = "post"
    /\ posts' = {q \in posts : q.sub # s.id}
    /\ subs' = (subs \ {s}) \cup {[s EXCEPT !.stage = "reload"]}
    /\ success' = MsgSaved
    /\ postsOk' = postsOk + 1
    /\ LoadReviews(s.id)
    /\ UNCHANGED <<form, submitting, error, items, mounted, nsubmits, completedOk>>

\* the POST is answered 2xx: lines 120-122 up to the await inside loadReviews
PostOk(s) ==
    /\ s.stage = "post"
    /\ posts' = {q \in posts : q.sub # s.id}
    /\ subs' = (subs \ {s}) \cup {[s EXCEPT !.stage = "reload"]}
    /\ success' = MsgSaved
    /\ form' = DefaultForm
    /\ postsOk' = postsOk + 1
    /\ LoadReviews(s.id)
    /\ UNCHANGED <<submitting, error, items, mounted, nsubmits, completedOk>>

\* the GET's fetch rejects: catch and finally of loadReviews, lines 66-70
GetTransportFail(g) ==
    /\ g.stage = "fetch"
    /\ error' = MsgTransport
    /\ items' = ItemsAfterCatch(items)
    /\ EndLoad(g)
    /\ UNCHANGED <<form, success, mounted, posts, getsIssued, postsOk,
                   nsubmits, completedOk>>

\* the GET is answered non-2xx: line 63, then catch and finally
GetNotOk(g, status) ==
    /\ g.stage = "fetch"
    /\ error' = StatusMessage(status)
    /\ items' = ItemsAfterCatch(items)
    /\ EndLoad(g)
    /\ UNCHANGED <<form, success, mounted, posts, getsIssued, postsOk,
                   nsubmits, completedOk>>

\* the GET is answered 2xx: loadReviews awaits the body, line 64
GetOk(g) ==
    /\ g.stage = "fetch"
    /\ gets' = (gets \ {g}) \cup {[g EXCEPT !.stage = "json"]}
    /\ UNCHANGED <<form, submitting, error, success, items, loading, mounted,
                   subs, posts, getsIssued, postsOk, nsubmits, completedOk>>

\* res.json() rejects: catch and finally of loadReviews
GetParseFail(g) ==
    /\ g.stage = "json"
    /\ error' = MsgParse
    /\ items' = ItemsAfterCatch(items)
    /\ EndLoad(g)
    /\ UNCHANGED <<form, success, mounted, posts, getsIssued, postsOk,
                   nsubmits, completedOk>>

\* res.json() resolves: setItems(data) and finally, lines 64-65 and 69
GetData(g, data) ==
    /\ g.stage = "json"
    /\ items' = SetItems(items, data)
    /\ completedOk' = Append(completedOk, [id |-> g.id, data |-> data])
    /\ EndLoad(g)
    /\ UNCHANGED <<form, error, success, mounted, posts, getsIssued, postsOk,
                   nsubmits>>

\* steps of the POST exchange
PostSteps ==
    \E s \in subs :
        \/ PostTransportFail(s)
        \/ PostNotOk(s)
        \/ \E body \in ErrBodies : PostErrBody(s, body)
        \/ PostOk(s)

\* steps of a GET exchange
GetSteps ==
    \E g \in gets :
        \/ GetTransportFail(g)
        \/ \E status \in GetFailStatuses : GetNotOk(g, status)
        \/ GetOk(g)
        \/ GetParseFail(g)
        \/ \E data \in Bodies : GetData(g, data)

Next ==
    \/ Mount
    \/ \E name \in Fields : \E value \in Inputs(name) : OnChange(name, value)
    \/ OnSubmitInvalid
    \/ OnSubmitValid
    \/ \E s \in subs : PostTransportFail(s)
    \/ \E s \in subs : PostNotOk(s)
    \/ \E s \in subs : \E body \in ErrBodies : PostErrBody(s, body)
    \/ \E s \in subs : PostOk(s)
    \/ \E g \in gets : GetTransportFail(g)
    \/ \E g \in gets : \E status \in GetFailStatuses : GetNotOk(g, status)
    \/ \E g \in gets : GetOk(g)
    \/ \E g \in gets : GetParseFail(g)
    \/ \E g \in gets : \E data \in Bodies : GetData(g, data)

Spec == Init /\ [][Next]_vars

\* every request issued is eventually answered
FairSpec == Spec /\ WF_vars(PostSteps) /\ WF_vars(GetSteps)

\* the component after the mount effect, with a form the user has typed
InitForm ==
    /\ form \in WideForms
    /\ submitting = FALSE
    /\ error = ""
    /\ success = ""
    /\ items = <<>>
    /\ loading = TRUE
    /\ mounted = TRUE
    /\ subs = {}
    /\ posts = {}
    /\ gets = {[id |-> 1, stage |-> "fetch", caller |-> Effect]}
    /\ getsIssued = 1
    /\ postsOk = 0
    /\ nsubmits = 0
    /\ completedOk = <<>>

NextForm == OnSubmitInvalid \/ OnSubmitValid

\* one submit of every form of WideForms
SpecForm == InitForm /\ [][NextForm]_vars

----------------------------------------------------------------------------
(* Properties *)

\* a step that handles a submit event
IsSubmit == nsubmits' = nsubmits + 1

\* a step in which a loadReviews invocation ends
IsLoadEnd == gets' # gets /\ gets' \subseteq gets

\* a finite number in [0, 10]
RatingInRange(r) == r.k = "num" /\ r.n >= 0 /\ r.n <= 10

\* the form cannot be submitted: title or review blank, or a rating that
\* converts to NaN or to a value outside [0, 10]
FormInvalid(f) ==
    \/ Trim(f.title) = <<>>
    \/ Trim(f.review) = <<>>
    \/ ~RatingInRange(Number(f.rating))

\* C1: a submit of an invalid form issues no POST and sets the error message,
\* and every POST issued carries a non-empty trimmed title and review and a
\* finite rating in [0, 10].
C1_InvalidSubmitSendsNothing ==
    [][IsSubmit =>
        /\ FormInvalid(form) => (posts' = posts /\ error' # "")
        /\ \A q \in posts' :
              /\ q.body.title # <<>> /\ Trim(q.body.title) = q.body.title
              /\ q.body.review # <<>> /\ Trim(q.body.review) = q.body.review
              /\ RatingInRange(q.body.rating)]_vars

\* C1 witnesses: a form whose rating is not a number was submitted and
\* refused, nothing being sent
C1_Witness ==
    /\ nsubmits = 1
    /\ IsNaN(Number(form.rating))
    /\ Trim(form.title) # <<>> /\ Trim(form.review) # <<>>
    /\ error = MsgRating
    /\ posts = {}

\* C2: every submission that sets the submitting flag eventually clears it,
\* and a submit that fails validation leaves it cleared.
C2_SubmittingEventuallyCleared ==
    /\ submitting ~> ~submitting
    /\ [][(IsSubmit /\ posts' = posts) => ~submitting']_vars

\* C2 witness: a submission is waiting for its reload with the flag set
C2_Witness ==
    /\ submitting
    /\ \E s \in subs : s.stage = "reload"

\* C3 (as claimed): the error message and the success message are never both
\* non-empty.
C3_OneMessageAtATime == ~(error # "" /\ success # "")

\* C4: the stored list is the initial empty list or the body of the GET that
\* most recently completed successfully, whatever the order of issue.
C4_ItemsAreLastCompletedBody ==
    items = IF completedOk = <<>> THEN <<>> ELSE completedOk[Len(completedOk)].data

\* C4 witness: the reload completed before the initial load, and the initial
\* load's body, which completed last, is the stored list
C4_Witness ==
    /\ Len(completedOk) = 2
    /\ completedOk[1].id = 2 /\ completedOk[1].data = <<2, 1>>
    /\ completedOk[2].id = 1 /\ completedOk[2].data = <<1>>
    /\ items = <<1>>

\* C5: a load that ends in a failure leaves the list as it is, stores an
\* error message and clears the loading flag.
C5_FailedLoadKeepsItems ==
    [][(IsLoadEnd /\ completedOk' = completedOk) =>
        (items' = items /\ error' # "" /\ loading' = FALSE)]_vars

\* C5 witness: the initial load stored a list, the reload failed with a 500
C5_Witness ==
    /\ Len(completedOk) = 1 /\ completedOk[1].id = 1
    /\ getsIssued = 2 /\ gets = {}
    /\ items = <<2, 1>>
    /\ error = StatusMessage(500)
    /\ ~loading

\* the message C6 claims for a non-2xx body
ClaimedErrMessage(body) ==
    IF body.kind # "unparseable" /\ body.hasDetail THEN body.detail ELSE MsgSaveFailed

\* C6 (as claimed): after a non-2xx POST the error is the body's detail if the
\* body parses and has one, else 'Failed to save review'; no GET is issued,
\* the form is kept, success stays empty and submitting is false.
C6_PostErrorMessage ==
    [][\A body \in ErrBodies :
        (\E s \in subs : PostErrBody(s, body)) =>
            /\ error' = ClaimedErrMessage(body)
            /\ getsIssued' = getsIssued
            /\ form' = form
            /\ success' = ""
            /\ ~submitting']_vars

\* C7: a 2xx POST sets 'Saved!', resets the form and issues exactly one GET;
\* GETs are issued only by the mount effect and by successful POSTs.
C7_ReloadAfterSuccess ==
    [][/\ getsIssued = (IF mounted THEN 1 ELSE 0) + postsOk
       /\ getsIssued' = (IF mounted' THEN 1 ELSE 0) + postsOk'
       /\ postsOk' # postsOk =>
            /\ success' = MsgSaved
            /\ form' = DefaultForm
            /\ getsIssued' = getsIssued + 1
            /\ Cardinality(gets') = Cardinality(gets) + 1]_vars

\* C7 witness: the first POST succeeded and its reload is in flight
C7_Witness ==
    /\ postsOk = 1 /\ getsIssued = 2
    /\ success = MsgSaved
    /\ form = DefaultForm
    /\ \E g \in gets : g.id = 2 /\ g.caller = 1

\* raw tags text with nothing but commas and blanks in it (the empty text too)
AllBlankTags(raw) == \A i \in 1..Len(raw) : raw[i] \in {",", " "}

\* C8 (as claimed): the tags sent hold no empty and no untrimmed element, and
\* are null whenever the raw text is empty or only commas and blanks.
C8_TagsNormalized ==
    [][IsSubmit =>
        \A q \in posts' \ posts :
            /\ \A i \in 1..Len(q.body.tags.v) :
                  q.body.tags.v[i] # <<>> /\ Trim(q.body.tags.v[i]) = q.body.tags.v[i]
            /\ AllBlankTags(form.tags) => q.body.tags = NullTags]_vars

\* C9: at most one submission is in progress and at most one POST in flight,
\* and the flag that disables the button is set while one is.
C9_OneSubmissionAtATime ==
    /\ Cardinality(posts) <= 1
    /\ Cardinality(subs) <= 1
    /\ subs # {} => submitting

\* C9 witness: a second POST is in flight after the first submission ended
C9_Witness ==
    /\ nsubmits = 2
    /\ \E q \in posts : q.sub = 2
    /\ postsOk = 1

\* C10 (as claimed): while a GET is in flight the loading flag is true.
C10_LoadingWhileInFlight == gets # {} => loading

\* C10 (amended): the flag is set when a GET is issued and cleared when any
\* load ends, whether or not another GET is still in flight.
C10_LoadingFollowsLastEvent ==
    [][/\ getsIssued' # getsIssued => loading'
       /\ IsLoadEnd => ~loading']_vars

\* C10 witness: of two overlapping loads one has ended and cleared the flag
\* while the other is in flight
C10_Witness ==
    /\ getsIssued = 2
    /\ Cardinality(gets) = 1
    /\ ~loading

====
